---- MODULE Spec2Model ----
(***************************************************************************)
(* A model of imagexcel_decode.c: the palette reader, the archive decoder, *)
(* the raster writer and the planar-to-linear converter.                   *)
(*                                                                         *)
(* Files are byte sequences (0..255); text written with fprintf is         *)
(* rendered to its ASCII bytes.  File names are sequences of one-character *)
(* strings.  Descriptors are allocated lowest-free-first, as open(2) does. *)
(***************************************************************************)
EXTENDS Integers, Sequences, FiniteSets, TLC

\* ---------------------------------------------------------------- constants
MODEX_PLANES == 4
PALETTE_DATA_OFFSET == 13
PALETTE_SIZE_COLORS == 256
PALETTE_SIZE_BYTES == 768
MAX_FILENAME_LEN == 32

\* ------------------------------------------------------------------- bounds
\* The largest sprite count byte an input archive carries.
MaxSprites == 2
\* The largest pixel count handed to linearize_planar_data.
MaxPixelCount == 9

\* ------------------------------------------------------------------ helpers
Min(a, b) == IF a < b THEN a ELSE b
Max(a, b) == IF a > b THEN a ELSE b

\* The first n elements of s (all of s when it is shorter).
Take(s, n) == SubSeq(s, 1, Min(n, Len(s)))

\* cnt bytes of s from byte offset off (0-based).
Slice(s, off, cnt) == SubSeq(s, off + 1, off + cnt)

\* f with key k bound to v.
Put(f, k, v) == [x \in (DOMAIN f) \cup {k} |-> IF x = k THEN v ELSE f[x]]

\* n copies of x.
Rep(x, n) == [i \in 1..n |-> x]

\* A value standing for memory no one has written.
Uninit == -1

\* ----------------------------------------------------------------- the state
VARIABLES
  pc,             \* position of the program
  argc,           \* main's argument count
  filename_base,  \* argv[2], the archive path
  palSrc,         \* the bytes of the palette source, argv[1]
  fs,             \* the other files: name -> bytes
  openFds,        \* descriptors now open in the process
  handles,        \* per function: descriptors it opened and has not closed
  returned,       \* the functions that have returned at least once
  palOpened,      \* read_palette's open() gave a descriptor (>= 0)
  palStatus,      \* read_palette's return value
  palette_data,   \* main's palette_data[PALETTE_SIZE_BYTES]
  fd,             \* decode_spr's descriptor
  pos,            \* file offset of decode_spr's descriptor
  num_sprites,    \* decode_spr's num_sprites
  width_height_data, \* decode_spr's directory buffer
  sprite_index,   \* decode_spr's loop counter
  pixel_data,     \* decode_spr's payload buffer
  status,         \* decode_spr's status
  filename,       \* write_ppm's filename[]
  exit_status,    \* main's return value
  orig,           \* the archive's bytes when the run started
  countRead,      \* the count byte was read
  reads,          \* log of payload reads: [idx, off, want, got, bytes]
  calls,          \* log of write_ppm calls
  lpc,            \* linearize_planar_data: position
  pixelcount,     \* linearize_planar_data: argument
  planar_data,    \* linearize_planar_data: input buffer
  planar_in,      \* the input buffer as the caller passed it
  linear_data,    \* linearize_planar_data: output buffer
  modex_plane,    \* linearize_planar_data: outer counter
  pixel_index,    \* linearize_planar_data: inner counter
  writes          \* linearize_planar_data: log of written positions

progVars == <<pc, argc, filename_base, palSrc, fs, openFds, handles, returned,
              palOpened, palStatus, palette_data, fd, pos, num_sprites,
              width_height_data, sprite_index, pixel_data, status, filename,
              exit_status, orig, countRead, reads, calls>>
linVars == <<lpc, pixelcount, planar_data, planar_in, linear_data,
             modex_plane, pixel_index, writes>>
vars == <<progVars, linVars>>

\* ---------------------------------------------------------- the environment
\* open(2) and fopen(3) take the lowest descriptor not in use.
LowestFree(S) ==
  CHOOSE n \in 0..Cardinality(S) : n \notin S /\ \A m \in 0..(n - 1) : m \in S

\* What open(2) may return: -1, or the new descriptor.
OpenResults(S) == {-1, LowestFree(S)}

\* What read(2) returns on a regular file: the bytes left, at most cnt.
ReadCount(file, off, cnt) == Min(cnt, Max(0, Len(file) - off))

\* lseek(fd, off, SEEK_SET) on a regular file: the offset, also past the end.
Lseek(file, off) == off

\* buf after read(2) stored the bytes it got at its start.
ReadInto(buf, file, off, cnt) ==
  LET got == ReadCount(file, off, cnt)
  IN  [k \in 1..Len(buf) |-> IF k <= got THEN file[off + k] ELSE buf[k]]

\* ------------------------------------------------------------------- inputs
\* Palette sources: len bytes, byte o holding (mul * o) % 256.
PalFile(len, mul) == [k \in 1..len |-> (mul * (k - 1)) % 256]

PalSources ==
  {PalFile(l, 1) : l \in {0, 12, 780, 781, 782}} \cup {PalFile(781, 7)}

\* The (width, height) pairs the input archives draw their entries from.
DimSet == {<<0, 2>>, <<1, 0>>, <<1, 1>>, <<2, 3>>}

Dirs == UNION {[1..n -> DimSet] : n \in 0..MaxSprites}

\* The directory's bytes: width, height, width, height, ...
DirBytes(dir) ==
  [k \in 1..(2 * Len(dir)) |->
     IF k % 2 = 1 THEN dir[(k + 1) \div 2][1] ELSE dir[k \div 2][2]]

RECURSIVE PayloadLen(_)
PayloadLen(dir) ==
  IF dir = <<>> THEN 0
  ELSE (IF dir[1][1] # 0 /\ dir[1][2] # 0 THEN dir[1][1] * dir[1][2] ELSE 0)
       + PayloadLen(Tail(dir))

\* An archive as section 6 lays it out, with recognisable payload bytes.
FullArchive(dir) ==
  <<Len(dir)>> \o DirBytes(dir) \o [k \in 1..PayloadLen(dir) |-> (5 * k + 2) % 256]

\* The archives fed to the decoder: well-formed ones and their prefixes.
Archives ==
  UNION {{Take(FullArchive(d), c) : c \in 0..Len(FullArchive(d))} : d \in Dirs}

\* Archive paths: 4, 23, 27 and 30 characters long.
BaseNames == {Rep("a", l) : l \in {4, 23, 27, 30}}

FuncNames == {"read_palette", "decode_spr", "write_ppm"}

\* The converter is not running.
LinIdle ==
  /\ lpc = "idle"
  /\ pixelcount = 0
  /\ planar_data = <<>>
  /\ planar_in = <<>>
  /\ linear_data = <<>>
  /\ modex_plane = 0
  /\ pixel_index = 0
  /\ writes = <<>>

\* The program is not running.
ProgIdle ==
  /\ pc = "idle"
  /\ argc = 0
  /\ filename_base = <<>>
  /\ palSrc = <<>>
  /\ fs = <<>>
  /\ openFds = {}
  /\ handles = [f \in FuncNames |-> {}]
  /\ returned = {}
  /\ palOpened = FALSE
  /\ palStatus = FALSE
  /\ palette_data = <<>>
  /\ fd = -1
  /\ pos = 0
  /\ num_sprites = 0
  /\ width_height_data = <<>>
  /\ sprite_index = 0
  /\ pixel_data = <<>>
  /\ status = TRUE
  /\ filename = <<>>
  /\ exit_status = 0
  /\ orig = <<>>
  /\ countRead = FALSE
  /\ reads = <<>>
  /\ calls = <<>>

\* The descriptors open when main starts: all three standard ones, or
\* standard input closed by the caller.
StartFds == {{0, 1, 2}, {1, 2}}

\* The runs checked: every palette source and descriptor set with one
\* archive, and every archive and archive path with one palette source long
\* enough to be read.
Runs ==
  [argc : {2, 3}, base : {Rep("a", 4)}, pal : PalSources,
   arch : {FullArchive(<<<<2, 3>>>>)}, fds : StartFds]
  \cup
  [argc : {3}, base : BaseNames, pal : {PalFile(781, 7)},
   arch : Archives, fds : {{0, 1, 2}}]

\* The process starts in main.
Init ==
  /\ pc = "main"
  /\ \E run \in Runs :
       /\ argc = run.argc
       /\ filename_base = run.base
       /\ palSrc = run.pal
       /\ orig = run.arch
       /\ openFds = run.fds
  /\ fs = [n \in {filename_base} |-> orig]
  /\ handles = [f \in FuncNames |-> {}]
  /\ returned = {}
  /\ palOpened = FALSE
  /\ palStatus = FALSE
  /\ palette_data = Rep(Uninit, PALETTE_SIZE_BYTES)
  /\ fd = -1
  /\ pos = 0
  /\ num_sprites = 0
  /\ width_height_data = <<>>
  /\ sprite_index = 0
  /\ pixel_data = <<>>
  /\ status = TRUE
  /\ filename = <<>>
  /\ exit_status = 0
  /\ countRead = FALSE
  /\ reads = <<>>
  /\ calls = <<>>
  /\ LinIdle

\* --------------------------------------------------------------------- main
\* main, lines 59-63: too few arguments.
Usage ==
  /\ pc = "main"
  /\ argc < 3
  /\ pc' = "exit"
  /\ exit_status' = 0
  /\ UNCHANGED <<argc, filename_base, palSrc, fs, openFds, handles, returned,
                 palOpened, palStatus, palette_data, fd, pos, num_sprites,
                 width_height_data, sprite_index, pixel_data, status, filename,
                 orig, countRead, reads, calls>>
  /\ UNCHANGED linVars

\* read_palette's status and buffer for open() returning r.
PaletteRead(r, src, buf) ==
  IF r > 0 /\ Lseek(src, PALETTE_DATA_OFFSET) = PALETTE_DATA_OFFSET
  THEN [status |-> ReadCount(src, PALETTE_DATA_OFFSET, PALETTE_SIZE_BYTES) = PALETTE_SIZE_BYTES,
        data |-> ReadInto(buf, src, PALETTE_DATA_OFFSET, PALETTE_SIZE_BYTES)]
  ELSE [status |-> FALSE, data |-> buf]

\* The descriptors read_palette leaves open: it closes only inside fd > 0.
PaletteLeaves(r) == IF r >= 0 /\ ~(r > 0) THEN {r} ELSE {}

\* main, line 69: the call of read_palette, whole.
ReadPalette ==
  /\ pc = "main"
  /\ ~(argc < 3)
  /\ \E r \in OpenResults(openFds) :
       /\ palOpened' = (r >= 0)
       /\ palStatus' = PaletteRead(r, palSrc, palette_data).status
       /\ palette_data' = PaletteRead(r, palSrc, palette_data).data
       /\ openFds' = openFds \cup PaletteLeaves(r)
       /\ handles' = [handles EXCEPT !["read_palette"] = PaletteLeaves(r)]
  /\ returned' = returned \cup {"read_palette"}
  /\ pc' = "palette_done"
  /\ UNCHANGED <<argc, filename_base, palSrc, fs, fd, pos, num_sprites,
                 width_height_data, sprite_index, pixel_data, status, filename,
                 exit_status, orig, countRead, reads, calls>>
  /\ UNCHANGED linVars

\* main, lines 73-76: the palette could not be read.
PaletteFailed ==
  /\ pc = "palette_done"
  /\ ~palStatus
  /\ exit_status' = -1
  /\ pc' = "exit"
  /\ UNCHANGED <<argc, filename_base, palSrc, fs, openFds, handles, returned,
                 palOpened, palStatus, palette_data, fd, pos, num_sprites,
                 width_height_data, sprite_index, pixel_data, status, filename,
                 orig, countRead, reads, calls>>
  /\ UNCHANGED linVars

\* --------------------------------------------------------------- write_ppm
\* %d: the decimal digits of n, as ASCII bytes.
RECURSIVE Dec(_)
Dec(n) == IF n < 10 THEN <<48 + n>> ELSE Dec(n \div 10) \o <<48 + (n % 10)>>

\* %03d: at least three digits, padded with '0' on the left.
Fmt03d(n) == Rep(48, 3 - Len(Dec(n))) \o Dec(n)

\* The characters of %03d, for file names.
DigitChars == <<"0", "1", "2", "3", "4", "5", "6", "7", "8", "9">>
Name03d(n) == [k \in 1..Len(Fmt03d(n)) |-> DigitChars[Fmt03d(n)[k] - 48 + 1]]

\* "%s_%03d.ppm", line 256, before any truncation.
FormatName(base, idx) == base \o <<"_">> \o Name03d(idx) \o <<".", "p", "p", "m">>

\* snprintf(buf, size, ...) keeps at most size - 1 characters.
Snprintf(size, s) == Take(s, size - 1)

\* filename[] after line 256.
OutputName(base, idx) == Snprintf(MAX_FILENAME_LEN - 1, FormatName(base, idx))

\* palette[i].r, .g, .b: palette_entry is three consecutive bytes.
PalR(pal, i) == pal[3 * i + 1]
PalG(pal, i) == pal[3 * i + 2]
PalB(pal, i) == pal[3 * i + 3]

\* A loop that breaks the line after every fourth triplet, not before it.
LineBreakAfterFourth(p) == p % 4 = 3

\* Whether the loop breaks the line before pixel p, line 268.
LineBreakBefore(p) == p % 4 = 0

\* Lines 268-275: what one iteration of the pixel loop prints.
PixelText(pal, data, p) ==
  (IF LineBreakBefore(p) THEN <<10>> ELSE <<>>)
    \o Fmt03d(PalR(pal, data[p + 1])) \o <<32>>
    \o Fmt03d(PalG(pal, data[p + 1])) \o <<32>>
    \o Fmt03d(PalB(pal, data[p + 1])) \o <<32, 32, 32>>

\* Lines 266-276: the pixel loop from pixel p on.
RECURSIVE PixelLoop(_, _, _, _)
PixelLoop(pal, data, p, count) ==
  IF p < count THEN PixelText(pal, data, p) \o PixelLoop(pal, data, p + 1, count)
  ELSE <<>>

\* Line 264: "P3\n%d %d\n255".
HeaderText(width, height) ==
  <<80, 51, 10>> \o Dec(width) \o <<32>> \o Dec(height) \o <<10, 50, 53, 53>>

\* Everything write_ppm prints to the stream.
PpmText(pal, data, width, height) ==
  HeaderText(width, height) \o PixelLoop(pal, data, 0, (width * height) % 65536)

\* ------------------------------------------------------------- decode_spr
Width(i) == width_height_data[i + 1][1]
Height(i) == width_height_data[i + 1][2]

\* Line 161: uint16_t header_size.
HeaderSize(n) == (n * 2) % 65536

\* Lines 174-175: pixel_count of sprite i.
PixelCount(i) == (Width(i) * Height(i)) % 65536

\* The archive as it is on disk now.
ArchiveNow == fs[filename_base]

unchLin == UNCHANGED linVars
unchInputs == UNCHANGED <<argc, filename_base, palSrc, orig, palOpened, palStatus, palette_data>>

\* main, line 71, and decode_spr, lines 147-154 and 234-238: open the archive.
DecodeOpen ==
  /\ pc = "palette_done"
  /\ palStatus
  /\ \E r \in OpenResults(openFds) :
       /\ fd' = r
       /\ openFds' = IF r >= 0 THEN openFds \cup {r} ELSE openFds
       /\ handles' = [handles EXCEPT !["decode_spr"] = IF r >= 0 THEN {r} ELSE {}]
       /\ status' = (r > 0)
       /\ pc' = IF r > 0 THEN "read_count" ELSE "decode_ret"
  /\ pos' = 0
  /\ num_sprites' = 0
  /\ UNCHANGED <<fs, returned, width_height_data, sprite_index, pixel_data,
                 filename, exit_status, countRead, reads, calls>>
  /\ unchInputs /\ unchLin

\* Lines 156-158 and 228-232: read the count byte.
DecodeReadCount ==
  /\ pc = "read_count"
  /\ LET got == ReadCount(ArchiveNow, pos, 1)
     IN  /\ pos' = pos + got
         /\ IF got = 1
            THEN /\ num_sprites' = ArchiveNow[pos + 1]
                 /\ countRead' = TRUE
                 /\ pc' = "alloc_header"
                 /\ UNCHANGED status
            ELSE /\ status' = FALSE
                 /\ pc' = "decode_ret"
                 /\ UNCHANGED <<num_sprites, countRead>>
  /\ UNCHANGED <<fs, openFds, handles, returned, fd, width_height_data,
                 sprite_index, pixel_data, filename, exit_status, reads, calls>>
  /\ unchInputs /\ unchLin

\* Lines 161-164 and 222-226: malloc(header_size) gives a buffer or NULL.
DecodeAllocHeader ==
  /\ pc = "alloc_header"
  /\ \E got \in BOOLEAN :
       IF got
       THEN /\ width_height_data' = Rep(<<Uninit, Uninit>>, HeaderSize(num_sprites) \div 2)
            /\ pc' = "read_header"
            /\ UNCHANGED status
       ELSE /\ status' = FALSE
            /\ pc' = "decode_ret"
            /\ UNCHANGED width_height_data
  /\ UNCHANGED <<fs, openFds, handles, returned, fd, pos, num_sprites,
                 sprite_index, pixel_data, filename, exit_status, countRead,
                 reads, calls>>
  /\ unchInputs /\ unchLin

\* Lines 166-169 and 213-220: read the directory.
DecodeReadHeader ==
  /\ pc = "read_header"
  /\ LET size == HeaderSize(num_sprites)
         got == ReadCount(ArchiveNow, pos, size)
         raw == ReadInto(Rep(Uninit, size), ArchiveNow, pos, size)
     IN  /\ pos' = pos + got
         /\ width_height_data' =
              [k \in 1..(size \div 2) |-> <<raw[2 * k - 1], raw[2 * k]>>]
         /\ IF got = size
            THEN /\ sprite_index' = 0
                 /\ pc' = "loop"
                 /\ UNCHANGED status
            ELSE /\ status' = FALSE
                 /\ pc' = "decode_ret"
                 /\ UNCHANGED sprite_index
  /\ UNCHANGED <<fs, openFds, handles, returned, fd, num_sprites, pixel_data,
                 filename, exit_status, countRead, reads, calls>>
  /\ unchInputs /\ unchLin

\* Lines 169-172: an entry with a zero dimension is passed over.
SkipEmpty ==
  /\ pc = "loop"
  /\ sprite_index < num_sprites
  /\ ~(Width(sprite_index) # 0 /\ Height(sprite_index) # 0)
  /\ sprite_index' = sprite_index + 1
  /\ UNCHANGED <<pc, fs, openFds, handles, returned, fd, pos, num_sprites,
                 width_height_data, pixel_data, status, filename, exit_status,
                 countRead, reads, calls>>
  /\ unchInputs /\ unchLin

\* Lines 174-180 and 204-209: malloc(pixel_count) gives a buffer or NULL.
AllocPixels ==
  /\ pc = "loop"
  /\ sprite_index < num_sprites
  /\ Width(sprite_index) # 0 /\ Height(sprite_index) # 0
  /\ \E got \in BOOLEAN :
       IF got
       THEN /\ pixel_data' = Rep(Uninit, PixelCount(sprite_index))
            /\ pc' = "read_pixels"
            /\ UNCHANGED <<status, sprite_index>>
       ELSE /\ status' = FALSE
            /\ sprite_index' = sprite_index + 1
            /\ UNCHANGED <<pc, pixel_data>>
  /\ UNCHANGED <<fs, openFds, handles, returned, fd, pos, num_sprites,
                 width_height_data, filename, exit_status, countRead, reads, calls>>
  /\ unchInputs /\ unchLin

\* Where the loop goes after a payload read that got `got` of `want` bytes.
AfterRead(got, want) == IF got = want THEN "write_ppm" ELSE "loop"

\* Lines 183 and 195-202: read the payload of the current sprite.
ReadPixels ==
  /\ pc = "read_pixels"
  /\ LET want == PixelCount(sprite_index)
         got == ReadCount(ArchiveNow, pos, want)
     IN  /\ pos' = pos + got
         /\ pixel_data' = ReadInto(pixel_data, ArchiveNow, pos, want)
         /\ reads' = Append(reads, [idx |-> sprite_index, off |-> pos,
                                    want |-> want, got |-> got,
                                    bytes |-> Slice(ArchiveNow, pos, got)])
         /\ pc' = AfterRead(got, want)
         /\ IF got = want
            THEN UNCHANGED <<status, sprite_index>>
            ELSE /\ status' = FALSE
                 /\ sprite_index' = sprite_index + 1
  /\ UNCHANGED <<fs, openFds, handles, returned, fd, num_sprites,
                 width_height_data, filename, exit_status, countRead, calls>>
  /\ unchInputs /\ unchLin

\* The record of one write_ppm call.
Call(name, opened, text, persisted) ==
  [idx |-> sprite_index,
   intended |-> FormatName(filename_base, sprite_index),
   name |-> name,
   opened |-> opened,
   width |-> Width(sprite_index),
   height |-> Height(sprite_index),
   data |-> pixel_data,
   text |-> text,
   persisted |-> persisted]

\* write_ppm, lines 253-262 and 281-286, and decode_spr, lines 185-193:
\* build the name and fopen it for writing.
WritePpmOpen ==
  /\ pc = "write_ppm"
  /\ filename' = OutputName(filename_base, sprite_index)
  /\ \E opened \in BOOLEAN :
       IF opened
       THEN /\ fs' = Put(fs, filename', <<>>)
            /\ openFds' = openFds \cup {LowestFree(openFds)}
            /\ handles' = [handles EXCEPT !["write_ppm"] = {LowestFree(openFds)}]
            /\ pc' = "ppm_body"
            /\ UNCHANGED <<status, sprite_index, returned, calls>>
       ELSE /\ status' = FALSE
            /\ sprite_index' = sprite_index + 1
            /\ returned' = returned \cup {"write_ppm"}
            /\ calls' = Append(calls, Call(filename', FALSE, <<>>, FALSE))
            /\ pc' = "loop"
            /\ UNCHANGED <<fs, openFds, handles>>
  /\ UNCHANGED <<fd, pos, num_sprites, width_height_data, pixel_data,
                 exit_status, countRead, reads>>
  /\ unchInputs /\ unchLin

\* write_ppm's return value once the file is open: line 279, whatever the
\* fprintf and fclose calls returned.
WritePpmResult(written) == TRUE

\* write_ppm, lines 264-279: print the image and close the stream.  The
\* device takes the bytes, or takes none of them (it is full).
WritePpmBody ==
  /\ pc = "ppm_body"
  /\ \E written \in BOOLEAN :
       LET text == PpmText(palette_data, pixel_data,
                           Width(sprite_index), Height(sprite_index))
       IN  /\ fs' = [fs EXCEPT ![filename] = IF written THEN text ELSE <<>>]
           /\ calls' = Append(calls, Call(filename, TRUE, text, written))
           /\ status' = (status /\ WritePpmResult(written))
  /\ openFds' = openFds \ handles["write_ppm"]
  /\ handles' = [handles EXCEPT !["write_ppm"] = {}]
  /\ returned' = returned \cup {"write_ppm"}
  /\ sprite_index' = sprite_index + 1
  /\ pc' = "loop"
  /\ UNCHANGED <<fd, pos, num_sprites, width_height_data, pixel_data,
                 filename, exit_status, countRead, reads>>
  /\ unchInputs /\ unchLin

\* Lines 169 and 220: the loop is over; the directory buffer is freed.
LoopExit ==
  /\ pc = "loop"
  /\ ~(sprite_index < num_sprites)
  /\ pc' = "decode_ret"
  /\ UNCHANGED <<fs, openFds, handles, returned, fd, pos, num_sprites,
                 width_height_data, sprite_index, pixel_data, status, filename,
                 exit_status, countRead, reads, calls>>
  /\ unchInputs /\ unchLin

\* The descriptors decode_spr closes before it returns: it calls close nowhere.
DecodeCloses == {}

\* decode_spr, line 240, and main, lines 71 and 78.
DecodeReturn ==
  /\ pc = "decode_ret"
  /\ openFds' = openFds \ DecodeCloses
  /\ handles' = [handles EXCEPT !["decode_spr"] = @ \ DecodeCloses]
  /\ returned' = returned \cup {"decode_spr"}
  /\ exit_status' = IF status THEN 0 ELSE -2
  /\ pc' = "exit"
  /\ UNCHANGED <<fs, fd, pos, num_sprites, width_height_data, sprite_index,
                 pixel_data, status, filename, countRead, reads, calls>>
  /\ unchInputs /\ unchLin

Next ==
  \/ Usage
  \/ ReadPalette
  \/ PaletteFailed
  \/ DecodeOpen
  \/ DecodeReadCount
  \/ DecodeAllocHeader
  \/ DecodeReadHeader
  \/ SkipEmpty
  \/ AllocPixels
  \/ ReadPixels
  \/ WritePpmOpen
  \/ WritePpmBody
  \/ LoopExit
  \/ DecodeReturn

Spec == Init /\ [][Next]_vars

\* --------------------------------------------------- linearize_planar_data
\* Line 88.
PixelsPerPlane(n) == n \div MODEX_PLANES

\* Line 94.
PlanarIndex(plane, p, n) == (plane * PixelsPerPlane(n)) + p

\* Line 95.
LinearIndex(plane, p) == (MODEX_PLANES * p) + plane

\* The planar buffers passed in: n bytes, recognisable by position.
PlanarInputs(n) == {[k \in 1..n |-> (11 * k) % 256], [k \in 1..n |-> 255 - k]}

\* A call of linearize_planar_data with both buffers sized to the pixel count.
InitLin ==
  /\ lpc = "plane"
  /\ pixelcount \in 0..MaxPixelCount
  /\ planar_data \in PlanarInputs(pixelcount)
  /\ planar_in = planar_data
  /\ linear_data = Rep(Uninit, pixelcount)
  /\ modex_plane = 0
  /\ pixel_index = 0
  /\ writes = <<>>
  /\ ProgIdle

\* Lines 92-97: one pass of the inner loop.
LinCopy ==
  /\ lpc = "plane"
  /\ modex_plane < MODEX_PLANES
  /\ pixel_index < PixelsPerPlane(pixelcount)
  /\ linear_data' =
       [linear_data EXCEPT ![LinearIndex(modex_plane, pixel_index) + 1] =
          planar_data[PlanarIndex(modex_plane, pixel_index, pixelcount) + 1]]
  /\ writes' = Append(writes, LinearIndex(modex_plane, pixel_index))
  /\ pixel_index' = pixel_index + 1
  /\ UNCHANGED <<lpc, pixelcount, planar_data, planar_in, modex_plane>>
  /\ UNCHANGED progVars

\* Lines 90-92: the inner loop is over; on to the next plane.
LinNextPlane ==
  /\ lpc = "plane"
  /\ modex_plane < MODEX_PLANES
  /\ ~(pixel_index < PixelsPerPlane(pixelcount))
  /\ modex_plane' = modex_plane + 1
  /\ pixel_index' = 0
  /\ UNCHANGED <<lpc, pixelcount, planar_data, planar_in, linear_data, writes>>
  /\ UNCHANGED progVars

\* Lines 90 and 99: the outer loop is over; the function returns.
LinReturn ==
  /\ lpc = "plane"
  /\ ~(modex_plane < MODEX_PLANES)
  /\ lpc' = "done"
  /\ UNCHANGED <<pixelcount, planar_data, planar_in, linear_data, modex_plane,
                 pixel_index, writes>>
  /\ UNCHANGED progVars

NextLin ==
  \/ LinCopy
  \/ LinNextPlane
  \/ LinReturn

SpecLin == InitLin /\ [][NextLin]_vars

\* ================================================================ properties
\* The directory as the bytes of the input archive give it.
OrigN == orig[1]
OrigWidth(i) == orig[2 + 2 * i]
OrigHeight(i) == orig[3 + 2 * i]
OrigNonEmpty(i) == OrigWidth(i) > 0 /\ OrigHeight(i) > 0

\* The payload bytes of the non-empty entries below i.
RECURSIVE PayloadBefore(_)
PayloadBefore(i) ==
  IF i = 0 THEN 0
  ELSE PayloadBefore(i - 1)
       + (IF OrigNonEmpty(i - 1) THEN OrigWidth(i - 1) * OrigHeight(i - 1) ELSE 0)

\* The input archive holds its count, its whole directory and every payload.
Complete ==
  /\ Len(orig) >= 1
  /\ Len(orig) >= 1 + 2 * OrigN
  /\ Len(orig) >= 1 + 2 * OrigN + PayloadBefore(OrigN)

DecodeReturned == "decode_spr" \in returned

\* C1: for a complete archive, every payload read is for a non-empty entry,
\* starts at offset 1 + 2N + (payload of the non-empty entries before it) and
\* gets exactly width * height bytes; empty entries are neither read nor
\* written out.
C1_PayloadOffsets ==
  Complete =>
    /\ \A k \in DOMAIN reads :
         /\ OrigNonEmpty(reads[k].idx)
         /\ reads[k].off = 1 + 2 * OrigN + PayloadBefore(reads[k].idx)
         /\ reads[k].got = OrigWidth(reads[k].idx) * OrigHeight(reads[k].idx)
    /\ \A k \in DOMAIN calls : OrigNonEmpty(calls[k].idx)

\* ---- C2
\* The number a run of ASCII digits spells.
RECURSIVE ParseDec(_)
ParseDec(t) ==
  IF t = <<>> THEN 0
  ELSE 10 * ParseDec(SubSeq(t, 1, Len(t) - 1)) + (t[Len(t)] - 48)

IsDigits(t) == \A k \in DOMAIN t : t[k] \in 48..57

\* How many digits the decimal form of a byte value has.
Width10(n) == IF n < 10 THEN 1 ELSE IF n < 100 THEN 2 ELSE 3

\* The Color Table entry i, taken from the palette source.
TableEntry(i) ==
  <<palSrc[PALETTE_DATA_OFFSET + 3 * i + 1],
    palSrc[PALETTE_DATA_OFFSET + 3 * i + 2],
    palSrc[PALETTE_DATA_OFFSET + 3 * i + 3]>>

\* t is "P3\n<width> <height>\n255".
IsHeader(t, width, height) ==
  LET dw == Width10(width)
      dh == Width10(height)
  IN  /\ Len(t) = 3 + dw + 1 + dh + 4
      /\ SubSeq(t, 1, 3) = <<80, 51, 10>>
      /\ IsDigits(SubSeq(t, 4, 3 + dw))
      /\ ParseDec(SubSeq(t, 4, 3 + dw)) = width
      /\ t[4 + dw] = 32
      /\ IsDigits(SubSeq(t, 5 + dw, 4 + dw + dh))
      /\ ParseDec(SubSeq(t, 5 + dw, 4 + dw + dh)) = height
      /\ SubSeq(t, 5 + dw + dh, 8 + dw + dh) = <<10, 50, 53, 53>>

\* t is one triplet: three 3-digit fields spelling rgb, blank-separated.
IsTriplet(t, rgb) ==
  /\ Len(t) = 14
  /\ \A c \in 1..3 :
       /\ IsDigits(SubSeq(t, 4 * c - 3, 4 * c - 1))
       /\ ParseDec(SubSeq(t, 4 * c - 3, 4 * c - 1)) = rgb[c]
  /\ t[4] = 32 /\ t[8] = 32
  /\ SubSeq(t, 12, 14) = <<32, 32, 32>>

\* Where triplet p starts in the text (0-based), after a header of hl bytes:
\* 14 bytes per triplet before it and one line break per group of 4 begun.
TripletOffset(hl, p) == hl + 14 * p + (p \div 4) + 1

\* The text is the header, then one triplet per pixel in buffer order, each
\* the table entry of its pixel, with a line break before triplet p exactly
\* when p mod 4 = 0.
IsImageOf(t, width, height, data) ==
  LET hl == 8 + Width10(width) + Width10(height)
      n == width * height
  IN  /\ Len(data) = n
      /\ Len(t) = hl + 14 * n + ((n + 3) \div 4)
      /\ IsHeader(SubSeq(t, 1, hl), width, height)
      /\ \A p \in 0..(n - 1) :
           /\ IsTriplet(Slice(t, TripletOffset(hl, p), 14), TableEntry(data[p + 1]))
           /\ (t[TripletOffset(hl, p)] = 10) <=> (p % 4 = 0)

\* C2: every sprite whose payload was read whole is handed to write_ppm with
\* the bytes read, in order; and whenever write_ppm opens its output, what it
\* emits is the header (P3, width, height, 255) and then width * height
\* triplets, the p-th being the Color Table entry of data[p], with a line
\* break before triplet p exactly when p mod 4 = 0; a device that takes the
\* bytes holds exactly that text under the opened name.
C2_ImageText ==
  /\ \A k \in DOMAIN calls :
       /\ \E j \in DOMAIN reads :
            /\ reads[j].idx = calls[k].idx
            /\ reads[j].got = reads[j].want
            /\ calls[k].data = reads[j].bytes
       /\ calls[k].opened =>
            IsImageOf(calls[k].text, calls[k].width, calls[k].height, calls[k].data)
  /\ \A j \in DOMAIN reads :
       (reads[j].got = reads[j].want /\ DecodeReturned) =>
          \E k \in DOMAIN calls : calls[k].idx = reads[j].idx
  /\ (pc = "loop" /\ calls # <<>> /\ calls[Len(calls)].persisted) =>
       fs[calls[Len(calls)].name] = calls[Len(calls)].text

\* A sprite of more than 4 pixels was read, written out and kept by the device.
C2_Witness ==
  \E k \in DOMAIN calls :
    /\ calls[k].opened
    /\ calls[k].persisted
    /\ calls[k].width * calls[k].height > 4
    /\ calls[k].width # calls[k].height

\* ---- C3
WholeRead(i) == \E j \in DOMAIN reads : reads[j].idx = i /\ reads[j].got = reads[j].want
WrittenOut(i) ==
  \E k \in DOMAIN calls : calls[k].idx = i /\ calls[k].opened /\ calls[k].persisted

\* C3: decode_spr returns success only if the archive was opened, the count
\* and the directory were read, and every non-empty sprite of the directory
\* was read whole and written out successfully.
C3_SuccessOnlyIfAllWritten ==
  (DecodeReturned /\ status) =>
    /\ countRead
    /\ Len(width_height_data) = num_sprites
    /\ \A i \in 0..(num_sprites - 1) :
         (Width(i) # 0 /\ Height(i) # 0) => (WholeRead(i) /\ WrittenOut(i))

\* C4: once read_palette, decode_spr or write_ppm has returned, it holds no
\* descriptor it opened and did not close.
C4_HandlesClosed == \A f \in returned : handles[f] = {}

\* C5: write_ppm opens no file when the intended name does not fit the
\* filename buffer, and never opens a file under a shortened name.
C5_NoTruncatedName ==
  \A k \in DOMAIN calls :
    /\ Len(calls[k].intended) > MAX_FILENAME_LEN - 1 => ~calls[k].opened
    /\ calls[k].opened => calls[k].name = calls[k].intended

\* C6: after a payload read that came up short, decode_spr reads no further
\* payload, writes no output for a later entry, and returns failure.
C6_StopsAfterShortRead ==
  \A j \in DOMAIN reads :
    reads[j].got < reads[j].want =>
      /\ j = Len(reads)
      /\ \A k \in DOMAIN calls : calls[k].idx <= reads[j].idx
      /\ DecodeReturned => ~status

\* C7: for a palette source that open() opened, read_palette returns success
\* exactly when the source has at least 781 bytes, and then the table is bytes
\* [13, 781) of the source in order.
C7_PaletteRead ==
  ("read_palette" \in returned /\ palOpened) =>
    /\ palStatus <=> (Len(palSrc) >= PALETTE_DATA_OFFSET + PALETTE_SIZE_BYTES)
    /\ palStatus => palette_data = Slice(palSrc, PALETTE_DATA_OFFSET, PALETTE_SIZE_BYTES)

\* C8: for an archive whose count byte is 0, decode_spr returns success and
\* no output is written.
C8_EmptyArchive ==
  (DecodeReturned /\ countRead /\ num_sprites = 0) => (status /\ calls = <<>>)

\* C10: the names opened for two different sprite indices are different.
C10_DistinctNames ==
  \A j, k \in DOMAIN calls :
    (calls[j].opened /\ calls[k].opened /\ calls[j].idx # calls[k].idx)
      => calls[j].name # calls[k].name

\* ---- C9
\* C9: when the call has returned: for a pixel count divisible by 4, output
\* position 4p + k holds input byte k * (n / 4) + p, every output position was
\* written exactly once and the input is unchanged; for any other count the
\* call was rejected, writing nothing.
C9_Linearize ==
  lpc = "done" =>
    IF pixelcount % 4 = 0
    THEN /\ \A k \in 0..3 : \A p \in 0..((pixelcount \div 4) - 1) :
              linear_data[4 * p + k + 1] = planar_in[k * (pixelcount \div 4) + p + 1]
         /\ Len(writes) = pixelcount
         /\ {writes[j] : j \in DOMAIN writes} = 0..(pixelcount - 1)
         /\ planar_data = planar_in
    ELSE writes = <<>>

\* ---- supporting properties
\* For a pixel count divisible by 4 the converter is the stated bijection.
LinearizeDivisible ==
  (lpc = "done" /\ pixelcount % 4 = 0) =>
    /\ \A k \in 0..3 : \A p \in 0..((pixelcount \div 4) - 1) :
         linear_data[4 * p + k + 1] = planar_in[k * (pixelcount \div 4) + p + 1]
    /\ Len(writes) = pixelcount
    /\ {writes[j] : j \in DOMAIN writes} = 0..(pixelcount - 1)
    /\ planar_data = planar_in

\* Inside decode_spr a failure, once recorded, stays recorded.
StatusNeverReset ==
  [][(pc \notin {"main", "palette_done"} /\ ~status) => ~status']_vars

\* With a descriptor above 0, read_palette succeeds exactly on sources of at
\* least 781 bytes and leaves nothing open.
PaletteReadPositiveFd ==
  ("read_palette" \in returned /\ palOpened /\ 0 \notin handles["read_palette"]) =>
    /\ palStatus <=> (Len(palSrc) >= PALETTE_DATA_OFFSET + PALETTE_SIZE_BYTES)
    /\ palStatus => palette_data = Slice(palSrc, PALETTE_DATA_OFFSET, PALETTE_SIZE_BYTES)
    /\ handles["read_palette"] = {}

====
